---- MODULE Spec2Model ----
(***************************************************************************)
(* Model of the Todo API (todoapp-api-golang): entity, SQL repository,     *)
(* domain service, HTTP handlers, hand-written router and the middleware   *)
(* chain.  Every handler is one atomic action; the SQL table is the only   *)
(* shared state.                                                           *)
(***************************************************************************)
EXTENDS Integers, Sequences, FiniteSets, TLC

\* ------------------------------------------------------------------ bounds
MaxTodos == 1          \* rows the table ever receives (AUTO_INCREMENT cap)
MaxClock == 1          \* ticks of the clock behind NOW() / time.Now()
MaxPad   == 1          \* spaces around a title
MaxScript == 3         \* response-writer calls of a scripted inner handler
MaxListed == 3         \* rows the table receives while lists are compared
MaxStmts == 4          \* the SQL statement of a request that the driver may fail

\* ------------------------------------------------------- program constants
MaxTitleLen == 100
MaxDescriptionLen == 500
DefaultPage == 1
DefaultLimit == 10
MaxLimit == 100

\* ------------------------------------------------------------------ strings
\* A Go string is modelled as a run of `core` non-space characters with
\* `lead` spaces before it and `trail` spaces after it; a string of spaces
\* only has core = 0 and all its spaces in `lead`.
Str(n) == [lead |-> 0, core |-> n, trail |-> 0]
Padded(l, n, t) == IF n = 0 THEN [lead |-> l + t, core |-> 0, trail |-> 0]
                   ELSE [lead |-> l, core |-> n, trail |-> t]
StrLen(s) == s.lead + s.core + s.trail
TrimSpace(s) == Str(s.core)

\* strconv.Itoa / strconv.Atoi on the identifiers a path segment can carry
IdRange == (0 - 1)..(MaxTodos + MaxListed)
Atoi(seg) == IF \E n \in IdRange : ToString(n) = seg
             THEN [ok |-> TRUE, val |-> CHOOSE n \in IdRange : ToString(n) = seg]
             ELSE [ok |-> FALSE, val |-> 0]

\* ------------------------------------------------------------------- errors
\* An error is the list of the message fragments that fmt.Errorf("..: %w")
\* wrapped around the innermost error; the message is their concatenation.
NoErr == <<>>
ErrorsNew(msg) == <<msg>>
Errorf(prefix, err) == <<prefix>> \o err
\* strings.Contains(err.Error(), "not found")
\* a comparison with the repository's message instead of a substring test
ContainsNotFoundExact(err) == err = <<"todo not found">>
ContainsNotFound(err) ==
    \E i \in 1..Len(err) : err[i] \in {"todo not found", "todo with ID %d not found"}
DriverError == ErrorsNew("driver: bad connection")

\* ------------------------------------------------------------------- entity
NoTodo == [ID |-> 0, Title |-> Str(0), Description |-> Str(0),
           IsCompleted |-> FALSE, CreatedAt |-> 0, UpdatedAt |-> 0]

IsValid(t) == StrLen(t.Title) > 0 /\ StrLen(t.Title) <= MaxTitleLen

MarkAsCompleted(t) == [t EXCEPT !.IsCompleted = TRUE]

\* a MarkAsIncomplete that forgets to clear the flag
MarkAsIncompleteKeeps(t) == t
MarkAsIncomplete(t) == [t EXCEPT !.IsCompleted = FALSE]

\* --------------------------------------------------------------- repository
\* A repository call runs against a context c:
\*   rows    the todos table (id -> row), ai the next AUTO_INCREMENT value,
\*   t       the value of NOW(), mode what RowsAffected() counts,
\*   failAt  the number of the SQL statement of this request that the driver
\*           fails (0: none), stmts the statements executed so far,
\*   calls   the repository methods called so far, svc the service methods
\*           entered so far, each with the identifier it was given.
\* Each call returns [c, todo, err].
\*   order   the order in which ORDER BY created_at DESC returns the rows.
Ctx(rows, ai, t, mode, failAt, order) ==
    [t |-> t, rows |-> rows, ai |-> ai, mode |-> mode, failAt |-> failAt, order |-> order, stmts |-> 0, calls |-> <<>>, svc |-> <<>>]

Entered(c, name, id) == [c EXCEPT !.svc = Append(@, <<name, id>>)]
Called(c, name) == [c EXCEPT !.calls = Append(@, name)]
Stmt(c) == [c EXCEPT !.stmts = @ + 1]
Fails(c) == c.failAt = c.stmts + 1

\* RowsAffected(): rows matched by WHERE (SQLite, PostgreSQL) or rows whose
\* stored value changed (MySQL without clientFoundRows, the default DSN)
RowsAffected(c, id, new) ==
    IF id \notin DOMAIN c.rows THEN 0
    ELSE IF c.mode = "changed" /\ c.rows[id] = new THEN 0 ELSE 1

\* the SELECT ... WHERE id = ? and the Scan of GetByID, without the call record
SelectByID(c, id) ==
    IF Fails(c)
    THEN [err |-> Errorf("failed to scan todo", DriverError), c |-> Stmt(c), todo |-> NoTodo]
    ELSE IF id \notin DOMAIN c.rows
    THEN [err |-> ErrorsNew("todo not found"), c |-> Stmt(c), todo |-> NoTodo]
    ELSE [err |-> NoErr, c |-> Stmt(c), todo |-> c.rows[id]]

RepoGetByID(c, id) == SelectByID(Called(c, "GetByID"), id)

\* ORDER BY created_at DESC: any order of the ids with no row before a newer one
IsCreatedDesc(order, rows) ==
    /\ Len(order) = Cardinality(DOMAIN rows)
    /\ {order[i] : i \in 1..Len(order)} = DOMAIN rows
    /\ \A i, j \in 1..Len(order) :
           i < j => rows[order[i]].CreatedAt >= rows[order[j]].CreatedAt

\* GetAll returns [c, todos, err]
RepoGetAll(c0) ==
    LET c == Called(c0, "GetAll") IN
    IF Fails(c)
    THEN [err |-> Errorf("failed to query todos", DriverError), c |-> Stmt(c), todos |-> <<>>]
    ELSE [err |-> NoErr, c |-> Stmt(c), todos |-> [i \in 1..Len(c.order) |-> c.rows[c.order[i]]]]

\* an INSERT that leaves the description column out
RepoCreateNoDescription(c0, todo) ==
    LET c == Called(c0, "Create") IN
    IF Fails(c)
    THEN [err |-> Errorf("failed to insert todo", DriverError), c |-> Stmt(c), todo |-> NoTodo]
    ELSE [err |-> NoErr,
          c |-> [Stmt(c) EXCEPT !.rows = (c.ai :> [ID |-> c.ai, Title |-> todo.Title,
                                                  Description |-> Str(0),
                                                  IsCompleted |-> FALSE,
                                                  CreatedAt |-> c.t, UpdatedAt |-> c.t]) @@ @,
                                !.ai = c.ai + 1],
          todo |-> [todo EXCEPT !.ID = c.ai, !.IsCompleted = FALSE,
                                !.CreatedAt = c.t, !.UpdatedAt = c.t]]

RepoCreate(c0, todo) ==
    LET c == Called(c0, "Create") IN
    IF Fails(c)
    THEN [err |-> Errorf("failed to insert todo", DriverError), c |-> Stmt(c), todo |-> NoTodo]
    ELSE LET id == c.ai
             row == [ID |-> id, Title |-> todo.Title, Description |-> todo.Description,
                     IsCompleted |-> FALSE, CreatedAt |-> c.t, UpdatedAt |-> c.t]
             c1 == [Stmt(c) EXCEPT !.rows = (id :> row) @@ @, !.ai = id + 1]
         IN [err |-> NoErr, c |-> c1, todo |-> [todo EXCEPT !.ID = id, !.IsCompleted = FALSE,
                                   !.CreatedAt = c.t, !.UpdatedAt = c.t]]

\* the UPDATE of Update and its RowsAffected test, then the GetByID that
\* reads the row again
UpdateExec(c, todo) ==
    IF Fails(c)
    THEN [err |-> Errorf("failed to update todo", DriverError), c |-> Stmt(c), todo |-> NoTodo]
    ELSE LET id == todo.ID
             new == IF id \in DOMAIN c.rows
                    THEN [c.rows[id] EXCEPT !.Title = todo.Title,
                                            !.Description = todo.Description,
                                            !.IsCompleted = todo.IsCompleted,
                                            !.UpdatedAt = c.t]
                    ELSE NoTodo
         IN IF RowsAffected(c, id, new) = 0
            THEN [err |-> ErrorsNew("todo not found"), c |-> Stmt(c), todo |-> NoTodo]
            ELSE [err |-> NoErr, c |-> [Stmt(c) EXCEPT !.rows[id] = new], todo |-> NoTodo]
UpdateReread(u, id) == IF u.err # NoErr THEN u ELSE SelectByID(u.c, id)
RepoUpdate(c0, todo) == UpdateReread(UpdateExec(Called(c0, "Update"), todo), todo.ID)

\* a Delete that reports success and keeps the row
RepoDeleteKeepsRow(c0, id) ==
    IF id \notin DOMAIN c0.rows
    THEN [err |-> ErrorsNew("todo not found"), c |-> Stmt(Called(c0, "Delete")), todo |-> NoTodo]
    ELSE [err |-> NoErr, c |-> Stmt(Called(c0, "Delete")), todo |-> NoTodo]
RepoDelete(c0, id) ==
    LET c == Called(c0, "Delete") IN
    IF Fails(c)
    THEN [err |-> Errorf("failed to delete todo", DriverError), c |-> Stmt(c), todo |-> NoTodo]
    ELSE IF id \notin DOMAIN c.rows
    THEN [err |-> ErrorsNew("todo not found"), c |-> Stmt(c), todo |-> NoTodo]
    ELSE [err |-> NoErr, c |-> [Stmt(c) EXCEPT !.rows = [i \in DOMAIN c.rows \ {id} |-> c.rows[i]]], todo |-> NoTodo]

\* ------------------------------------------------------------------ service
\* A service method returns what the repository returns, [c, todo, err].
\* The result of a repository call is passed on as an argument (g, s) to the
\* operator that models the statements after the call.
ValidationFailed ==
    ErrorsNew("todo validation failed: title is required and must be 100 characters or less")
InvalidID == ErrorsNew("invalid todo ID: must be greater than 0")
Fail(c, err) == [err |-> err, c |-> c, todo |-> NoTodo]
Wrap(s, prefix) == IF s.err = NoErr THEN s ELSE Fail(s.c, Errorf(prefix, s.err))
NotFound(g) == Fail(g.c, Errorf("todo with ID %d not found", g.err))

CreateTodo(c, todo) ==
    IF ~IsValid(todo) THEN Fail(Entered(c, "CreateTodo", todo.ID), ValidationFailed)
    ELSE Wrap(RepoCreate(Entered(c, "CreateTodo", todo.ID), todo), "failed to create todo")

\* a service that hands every id to the repository
GetTodoByIDUnguarded(c, id) ==
    Wrap(RepoGetByID(Entered(c, "GetTodoByID", id), id), "failed to get todo with ID %d")
GetTodoByID(c, id) ==
    IF id <= 0 THEN Fail(Entered(c, "GetTodoByID", id), InvalidID)
    ELSE Wrap(RepoGetByID(Entered(c, "GetTodoByID", id), id), "failed to get todo with ID %d")

GetAllTodosResult(s) ==
    IF s.err = NoErr THEN s
    ELSE [err |-> Errorf("failed to get all todos", s.err), c |-> s.c, todos |-> <<>>]
GetAllTodos(c) == GetAllTodosResult(RepoGetAll(Entered(c, "GetAllTodos", 0)))

UpdateExisting(g, todo) ==
    IF g.err # NoErr THEN NotFound(g)
    ELSE Wrap(RepoUpdate(g.c, todo), "failed to update todo")
UpdateTodo(c, todo) ==
    IF todo.ID <= 0 THEN Fail(Entered(c, "UpdateTodo", todo.ID), InvalidID)
    ELSE IF ~IsValid(todo) THEN Fail(Entered(c, "UpdateTodo", todo.ID), ValidationFailed)
    ELSE UpdateExisting(RepoGetByID(Entered(c, "UpdateTodo", todo.ID), todo.ID), todo)

DeleteExisting(g, id) ==
    IF g.err # NoErr THEN NotFound(g)
    ELSE Wrap(RepoDelete(g.c, id), "failed to delete todo")
DeleteTodo(c, id) ==
    IF id <= 0 THEN Fail(Entered(c, "DeleteTodo", id), InvalidID)
    ELSE DeleteExisting(RepoGetByID(Entered(c, "DeleteTodo", id), id), id)

CompleteExisting(g) ==
    IF g.err # NoErr THEN NotFound(g)
    ELSE Wrap(RepoUpdate(g.c, MarkAsCompleted(g.todo)), "failed to complete todo")
CompleteTodo(c, id) == CompleteExisting(RepoGetByID(Entered(c, "CompleteTodo", id), id))

IncompleteExisting(g) ==
    IF g.err # NoErr THEN NotFound(g)
    ELSE Wrap(RepoUpdate(g.c, MarkAsIncomplete(g.todo)),
              "failed to mark todo as incomplete")
IncompleteTodo(c, id) == IncompleteExisting(RepoGetByID(Entered(c, "IncompleteTodo", id), id))

\* ---------------------------------------------------------- response writer
\* What a handler does to its http.ResponseWriter is a list of calls:
\* Header().Set(k, v), WriteHeader(code) and Write(chunk).
HeaderKeys == {"Content-Type", "X-Content-Type-Options", "Allow", "X-Request-ID",
               "Access-Control-Allow-Origin", "Access-Control-Allow-Methods",
               "Access-Control-Allow-Headers", "Access-Control-Allow-Credentials",
               "Access-Control-Max-Age"}
NoChunk == [todo |-> NoTodo, todos |-> <<>>, kind |-> "", meta |-> <<>>, error |-> "", details |-> <<>>]
Text(msg) == [NoChunk EXCEPT !.kind = "text", !.error = msg]
SetHeader(k, v) == [val |-> v, op |-> "Set", key |-> k, code |-> 0, chunk |-> NoChunk]
WriteHeader(code) == [val |-> "", op |-> "WriteHeader", key |-> "", code |-> code, chunk |-> NoChunk]
Write(chunk) == [val |-> "", op |-> "Write", key |-> "", code |-> 0, chunk |-> chunk]

\* net/http: the first WriteHeader fixes the status and the headers sent; a
\* later one is ignored; Write before WriteHeader sends 200 first.
NewWriter == [wroteHeader |-> FALSE, status |-> 0,
              header |-> [k \in HeaderKeys |-> ""],
              sent |-> [k \in HeaderKeys |-> ""], body |-> <<>>]
WriterWriteHeader(w, code) ==
    IF w.wroteHeader THEN w
    ELSE [w EXCEPT !.wroteHeader = TRUE, !.status = code, !.sent = w.header]
WriterApply(w, o) ==
    CASE o.op = "Set" -> [w EXCEPT !.header[o.key] = o.val]
      [] o.op = "WriteHeader" -> WriterWriteHeader(w, o.code)
      [] o.op = "Write" -> [WriterWriteHeader(w, 200) EXCEPT !.body = Append(@, o.chunk)]

\* http.Error(w, msg, code)
HttpError(msg, code) ==
    << SetHeader("Content-Type", "text/plain; charset=utf-8"),
       SetHeader("X-Content-Type-Options", "nosniff"),
       WriteHeader(code), Write(Text(msg)) >>
\* http.NotFound(w, r)
HttpNotFound == HttpError("404 page not found", 404)

\* ---------------------------------------------------------------------- dto
Opt(o, default) == IF o = <<>> THEN default ELSE o[1]

ToTodoResponse(todo) ==
    [ID |-> todo.ID, Title |-> todo.Title, Description |-> todo.Description,
     IsCompleted |-> todo.IsCompleted, CreatedAt |-> todo.CreatedAt,
     UpdatedAt |-> todo.UpdatedAt]

ToTodoListResponse(todos, page, limit, total) ==
    LET totalPages == (total \div limit) + (IF total % limit # 0 THEN 1 ELSE 0) IN
    [NoChunk EXCEPT !.kind = "list",
                    !.todos = [i \in 1..Len(todos) |-> ToTodoResponse(todos[i])],
                    !.meta = << [page |-> page, limit |-> limit, total |-> total, total_pages |-> totalPages] >>]

\* json.Decode into CreateTodoRequest, then ToEntity: unknown keys are dropped
ToEntity(body) ==
    [NoTodo EXCEPT !.Title = Opt(body.title, Str(0)),
                   !.Description = Opt(body.description, Str(0)),
                   !.IsCompleted = FALSE]

\* json.Decode into UpdateTodoRequest, then ApplyToEntity
\* an ApplyToEntity that writes the zero value of a field the request omits
ApplyToEntityAll(body, todo) ==
    [todo EXCEPT !.Title = Opt(body.title, Str(0)),
                 !.Description = Opt(body.description, Str(0)),
                 !.IsCompleted = Opt(body.is_completed, FALSE)]
ApplyToEntity(body, todo) ==
    [todo EXCEPT !.Title = Opt(body.title, @),
                 !.Description = Opt(body.description, @),
                 !.IsCompleted = Opt(body.is_completed, @)]

\* ----------------------------------------------------------------- handlers
\* A handler returns [c, ops]: the context after its service calls and the
\* calls it made on the response writer.  s (g) is the result of the service
\* call whose answer the operator writes.
Done(c, ops) == [c |-> c, ops |-> ops]

writeJSONResponse(statusCode, chunk) ==
    << SetHeader("Content-Type", "application/json; charset=utf-8"),
       WriteHeader(statusCode), Write(chunk) >>

writeErrorResponse(statusCode, message, details) ==
    writeJSONResponse(statusCode,
        [NoChunk EXCEPT !.kind = "error", !.error = message, !.details = details])

JSONTodo(todo) == [NoChunk EXCEPT !.kind = "todo", !.todo = ToTodoResponse(todo)]

ContainsJSON(ctype) == ctype \in {"application/json", "application/json; charset=utf-8"}

\* strconv.Atoi(pathParts[3]) of /api/v1/todos/{id}[/action]
PathID(r) == Atoi(r.path[4])

\* strconv.Atoi of a query parameter
QueryRange == (0 - 1)..(MaxLimit + 1)
AtoiQuery(q) == IF \E n \in QueryRange : ToString(n) = q
                THEN [ok |-> TRUE, val |-> CHOOSE n \in QueryRange : ToString(n) = q]
                ELSE [ok |-> FALSE, val |-> 0]
Page(q, p) == IF q # "" /\ p.ok /\ p.val > 0 THEN p.val ELSE DefaultPage
\* a limit that cuts a request above the maximum down to the maximum
LimitCapped(q, l) == IF q # "" /\ l.ok /\ l.val > 0
                     THEN (IF l.val <= MaxLimit THEN l.val ELSE MaxLimit)
                     ELSE DefaultLimit
Limit(q, l) == IF q # "" /\ l.ok /\ l.val > 0 /\ l.val <= MaxLimit THEN l.val
               ELSE DefaultLimit

\* the 404 of an error whose message contains "not found", else the 500
NotFoundOr500(s, message) ==
    IF ContainsNotFound(s.err) THEN Done(s.c, writeErrorResponse(404, "Todo not found", <<>>))
    ELSE Done(s.c, writeErrorResponse(500, message, s.err))

CreateTodoResponse(s) ==
    IF s.err # NoErr THEN Done(s.c, writeErrorResponse(500, "Failed to create todo", s.err))
    ELSE Done(s.c, writeJSONResponse(201, JSONTodo(s.todo)))
CreateTodoDecoded(c, todo) ==
    IF StrLen(todo.Title) = 0
    THEN Done(c, writeErrorResponse(400, "Validation failed", <<"title is required">>))
    ELSE IF StrLen(todo.Title) > MaxTitleLen
    THEN Done(c, writeErrorResponse(400, "Validation failed",
                     <<"title must be 100 characters or less">>))
    ELSE IF StrLen(todo.Description) > MaxDescriptionLen
    THEN Done(c, writeErrorResponse(400, "Validation failed",
                     <<"description must be 500 characters or less">>))
    ELSE CreateTodoResponse(CreateTodo(c, todo))
HandleCreateTodo(c, r) ==
    IF r.method # "POST" THEN Done(c, HttpError("Method not allowed", 405))
    ELSE IF ~ContainsJSON(r.ctype)
    THEN Done(c, HttpError("Content-Type must be application/json", 400))
    ELSE IF ~r.body.ok
    THEN Done(c, writeErrorResponse(400, "Invalid JSON format", <<"json: syntax error">>))
    ELSE CreateTodoDecoded(c, ToEntity(r.body))

GetTodoByIDResponse(s) ==
    IF s.err # NoErr THEN NotFoundOr500(s, "Failed to get todo")
    ELSE Done(s.c, writeJSONResponse(200, JSONTodo(s.todo)))
HandleGetTodoByID(c, r) ==
    IF r.method # "GET" THEN Done(c, HttpError("Method not allowed", 405))
    ELSE IF Len(r.path) < 4 \/ r.path[4] = ""
    THEN Done(c, writeErrorResponse(400, "Invalid URL", <<"todo ID is required">>))
    ELSE IF ~PathID(r).ok
    THEN Done(c, writeErrorResponse(400, "Invalid todo ID", <<"ID must be a number">>))
    ELSE GetTodoByIDResponse(GetTodoByID(c, PathID(r).val))

GetAllTodosResponse(s, page, limit) ==
    IF s.err # NoErr THEN Done(s.c, writeErrorResponse(500, "Failed to get todos", s.err))
    ELSE Done(s.c, writeJSONResponse(200,
                       ToTodoListResponse(s.todos, page, limit, Len(s.todos))))
HandleGetAllTodos(c, r) ==
    IF r.method # "GET" THEN Done(c, HttpError("Method not allowed", 405))
    ELSE GetAllTodosResponse(GetAllTodos(c),
                             Page(r.query.page, AtoiQuery(r.query.page)),
                             Limit(r.query.limit, AtoiQuery(r.query.limit)))

UpdateTodoResponse(s) ==
    IF s.err # NoErr THEN Done(s.c, writeErrorResponse(500, "Failed to update todo", s.err))
    ELSE Done(s.c, writeJSONResponse(200, JSONTodo(s.todo)))
UpdateTodoExisting(g, r) ==
    IF g.err # NoErr THEN NotFoundOr500(g, "Failed to get todo")
    ELSE UpdateTodoResponse(UpdateTodo(g.c, ApplyToEntity(r.body, g.todo)))
HandleUpdateTodo(c, r) ==
    IF r.method # "PUT" THEN Done(c, HttpError("Method not allowed", 405))
    ELSE IF ~ContainsJSON(r.ctype)
    THEN Done(c, HttpError("Content-Type must be application/json", 400))
    ELSE IF Len(r.path) < 4
    THEN Done(c, writeErrorResponse(400, "Invalid URL", <<"todo ID is required">>))
    ELSE IF ~PathID(r).ok
    THEN Done(c, writeErrorResponse(400, "Invalid todo ID", <<"ID must be a number">>))
    ELSE IF ~r.body.ok
    THEN Done(c, writeErrorResponse(400, "Invalid JSON format", <<"json: syntax error">>))
    ELSE UpdateTodoExisting(GetTodoByID(c, PathID(r).val), r)

\* a handler that answers 204 whatever DeleteTodo returned
DeleteTodoResponseNoContent(s) == Done(s.c, << WriteHeader(204) >>)
DeleteTodoResponse(s) ==
    IF s.err # NoErr THEN NotFoundOr500(s, "Failed to delete todo")
    ELSE Done(s.c, << WriteHeader(204) >>)
HandleDeleteTodo(c, r) ==
    IF r.method # "DELETE" THEN Done(c, HttpError("Method not allowed", 405))
    ELSE IF Len(r.path) < 4
    THEN Done(c, writeErrorResponse(400, "Invalid URL", <<"todo ID is required">>))
    ELSE IF ~PathID(r).ok
    THEN Done(c, writeErrorResponse(400, "Invalid todo ID", <<"ID must be a number">>))
    ELSE DeleteTodoResponse(DeleteTodo(c, PathID(r).val))

CompleteTodoResponse(s) ==
    IF s.err # NoErr THEN NotFoundOr500(s, "Failed to complete todo")
    ELSE Done(s.c, writeJSONResponse(200, JSONTodo(s.todo)))
HandleCompleteTodo(c, r) ==
    IF r.method # "PATCH" THEN Done(c, HttpError("Method not allowed", 405))
    ELSE IF Len(r.path) < 5 \/ r.path[5] # "complete"
    THEN Done(c, writeErrorResponse(400, "Invalid URL", <<"invalid endpoint">>))
    ELSE IF ~PathID(r).ok
    THEN Done(c, writeErrorResponse(400, "Invalid todo ID", <<"ID must be a number">>))
    ELSE CompleteTodoResponse(CompleteTodo(c, PathID(r).val))

IncompleteTodoResponse(s) ==
    IF s.err # NoErr THEN NotFoundOr500(s, "Failed to mark todo as incomplete")
    ELSE Done(s.c, writeJSONResponse(200, JSONTodo(s.todo)))
HandleIncompleteTodo(c, r) ==
    IF r.method # "PATCH" THEN Done(c, HttpError("Method not allowed", 405))
    ELSE IF Len(r.path) < 5 \/ r.path[5] # "incomplete"
    THEN Done(c, writeErrorResponse(400, "Invalid URL", <<"invalid endpoint">>))
    ELSE IF ~PathID(r).ok
    THEN Done(c, writeErrorResponse(400, "Invalid todo ID", <<"ID must be a number">>))
    ELSE IncompleteTodoResponse(IncompleteTodo(c, PathID(r).val))

\* ------------------------------------------------------------------- router
\* The router returns [c, ops, handler]: handler is the TodoHandler method
\* it invoked, "" when it answered by itself.
Routed(h, name) == [c |-> h.c, ops |-> h.ops, handler |-> name]
Unrouted(c, ops) == [c |-> c, ops |-> ops, handler |-> ""]

healthCheckHandler(c, r) ==
    IF r.method # "GET" THEN Unrouted(c, HttpError("Method not allowed", 405))
    ELSE Unrouted(c, << SetHeader("Content-Type", "application/json"),
                        WriteHeader(200), Write(Text("{status: ok}")) >>)

handleTodoCollection(c, r) ==
    CASE r.method = "GET" -> Routed(HandleGetAllTodos(c, r), "GetAllTodos")
      [] r.method = "POST" -> Routed(HandleCreateTodo(c, r), "CreateTodo")
      [] OTHER -> Unrouted(c, <<SetHeader("Allow", "GET, POST")>>
                              \o HttpError("Method not allowed", 405))

handleTodoItem(c, r, id) ==
    IF id = "" THEN Unrouted(c, HttpError("Todo ID is required", 400))
    ELSE CASE r.method = "GET" -> Routed(HandleGetTodoByID(c, r), "GetTodoByID")
           [] r.method = "PUT" -> Routed(HandleUpdateTodo(c, r), "UpdateTodo")
           [] r.method = "DELETE" -> Routed(HandleDeleteTodo(c, r), "DeleteTodo")
           [] OTHER -> Unrouted(c, <<SetHeader("Allow", "GET, PUT, DELETE")>>
                                   \o HttpError("Method not allowed", 405))

\* a switch whose default case falls into the complete handler
handleTodoActionAnyToken(c, r, id, action) ==
    IF id = "" THEN Unrouted(c, HttpError("Todo ID is required", 400))
    ELSE IF r.method # "PATCH"
    THEN Unrouted(c, <<SetHeader("Allow", "PATCH")>> \o HttpError("Method not allowed", 405))
    ELSE CASE action = "incomplete" -> Routed(HandleIncompleteTodo(c, r), "IncompleteTodo")
           [] OTHER -> Routed(HandleCompleteTodo(c, r), "CompleteTodo")

handleTodoAction(c, r, id, action) ==
    IF id = "" THEN Unrouted(c, HttpError("Todo ID is required", 400))
    ELSE IF r.method # "PATCH"
    THEN Unrouted(c, <<SetHeader("Allow", "PATCH")>> \o HttpError("Method not allowed", 405))
    ELSE CASE action = "complete" -> Routed(HandleCompleteTodo(c, r), "CompleteTodo")
           [] action = "incomplete" -> Routed(HandleIncompleteTodo(c, r), "IncompleteTodo")
           [] OTHER -> Unrouted(c, HttpNotFound)

handleTodosRoutes(c, r, segments) ==
    CASE Len(segments) = 0 -> handleTodoCollection(c, r)
      [] Len(segments) = 1 -> handleTodoItem(c, r, segments[1])
      [] Len(segments) = 2 -> handleTodoAction(c, r, segments[1], segments[2])
      [] OTHER -> Unrouted(c, HttpNotFound)

\* r.path holds the segments of the cleaned URL path; TrimPrefix "/api/v1",
\* Trim "/" and Split "/" leave the segments after the second one
Segments(r) == SubSeq(r.path, 3, Len(r.path))
apiV1Handler(c, r) ==
    IF Len(Segments(r)) = 0 THEN Unrouted(c, HttpNotFound)
    ELSE IF Segments(r)[1] = "todos" THEN handleTodosRoutes(c, r, Tail(Segments(r)))
    ELSE Unrouted(c, HttpNotFound)

\* http.ServeMux with the patterns "/health" and "/api/v1/"
Mux(c, r) ==
    IF r.path = <<"health">> THEN healthCheckHandler(c, r)
    ELSE IF Len(r.path) >= 2 /\ SubSeq(r.path, 1, 2) = <<"api", "v1">> THEN apiV1Handler(c, r)
    ELSE Unrouted(c, HttpNotFound)

\* --------------------------------------------------------------- middleware
\* The run of a handler is [c, ops, handler, panics, ran, log]: the writer
\* calls it made before it returned or panicked, and how many times the
\* innermost handler was entered.  A middleware maps the run of `next` to its
\* own run and adds its log lines [id, status, line, size].
LogLine(line, id, status, size) == [id |-> id, status |-> status, line |-> line, size |-> size]

RECURSIVE SumSizes(_)
ChunkSize(ch) ==
    IF ch.kind = "text" THEN Len(ch.error) + 1
    ELSE 1 + StrLen(ch.todo.Title) + StrLen(ch.todo.Description) + Len(ch.todos)
SumSizes(ops) ==
    IF ops = <<>> THEN 0
    ELSE (IF Head(ops).op = "Write" THEN ChunkSize(Head(ops).chunk) ELSE 0) + SumSizes(Tail(ops))

\* ResponseRecorder after the calls ops: statusCode is assigned by every
\* WriteHeader call, responseSize adds up the Write calls
RECURSIVE RecorderStatus(_, _)
RecorderStatus(ops, statusCode) ==
    IF ops = <<>> THEN statusCode
    ELSE RecorderStatus(Tail(ops),
             IF Head(ops).op = "WriteHeader" THEN Head(ops).code ELSE statusCode)
NewResponseRecorder(ops) ==
    [statusCode |-> RecorderStatus(ops, 200), responseSize |-> SumSizes(ops)]

generateRequestID(t) == "req_" \o ToString(t)

NotRun(c) == [c |-> c, ops |-> <<>>, handler |-> "", panics |-> FALSE, ran |-> 0,
              log |-> <<>>, trace |-> <<>>]

RecoveryMiddleware(next, r) ==
    IF next.panics
    THEN [next EXCEPT !.panics = FALSE,
                      !.ops = @ \o HttpError("Internal Server Error", 500),
                      !.log = @ \o << LogLine("PANIC", "", 0, 0),
                                      LogLine("Request", "", 0, 0) >>]
    ELSE next

AccessLine(recorder) ==
    LogLine("access", "", recorder.statusCode, recorder.responseSize)
LoggingMiddleware(next, r) ==
    IF next.panics THEN next
    ELSE [next EXCEPT !.log = Append(@, AccessLine(NewResponseRecorder(next.ops)))]

CORSHeaders ==
    << SetHeader("Access-Control-Allow-Origin", "*"),
       SetHeader("Access-Control-Allow-Methods", "GET, POST, PUT, DELETE, OPTIONS"),
       SetHeader("Access-Control-Allow-Headers", "Content-Type, Authorization") >>
\* a CORS layer that hands the preflight on to the next handler
SimpleCORSMiddlewarePassesOn(next, c, r) == [next EXCEPT !.ops = CORSHeaders \o @]
SimpleCORSMiddleware(next, c, r) ==
    IF r.method = "OPTIONS"
    THEN [NotRun(c) EXCEPT !.ops = CORSHeaders \o <<WriteHeader(200)>>]
    ELSE [next EXCEPT !.ops = CORSHeaders \o @]

\* CORSConfig and the configurable CORSMiddleware(config)
DefaultCORSConfig ==
    [AllowedOrigins |-> << "*" >>,
     AllowedMethods |-> << "GET", "POST", "PUT", "DELETE", "PATCH", "OPTIONS" >>,
     AllowedHeaders |-> << "Origin", "Content-Type", "Content-Length", "Accept-Encoding",
                           "X-CSRF-Token", "Authorization", "Accept", "Cache-Control",
                           "X-Requested-With" >>,
     AllowCredentials |-> FALSE, MaxAge |-> 86400]
\* a configuration that lists its origins and sets no Max-Age
ListedCORSConfig ==
    [DefaultCORSConfig EXCEPT !.AllowedOrigins = << "https://app.example" >>,
                              !.AllowCredentials = TRUE, !.MaxAge = 0]

isOriginAllowed(origin, allowedOrigins) ==
    /\ Len(allowedOrigins) # 0
    /\ \E i \in 1..Len(allowedOrigins) :
           allowedOrigins[i] = "*" \/ allowedOrigins[i] = origin

RECURSIVE joinStrings(_, _)
joinStrings(strs, separator) ==
    IF Len(strs) = 0 THEN ""
    ELSE IF Len(strs) = 1 THEN strs[1]
    ELSE joinStrings(SubSeq(strs, 1, Len(strs) - 1), separator)
             \o separator \o strs[Len(strs)]

intToString(i) == IF i = 0 THEN "0" ELSE IF i > 0 THEN ToString(i) ELSE ""

CORSConfigHeaders(config, r) ==
    (IF ~isOriginAllowed(r.origin, config.AllowedOrigins) THEN << >>
     ELSE IF config.AllowedOrigins = << "*" >>
     THEN << SetHeader("Access-Control-Allow-Origin", "*") >>
     ELSE << SetHeader("Access-Control-Allow-Origin", r.origin) >>)
    \o << SetHeader("Access-Control-Allow-Methods",
                    joinStrings(config.AllowedMethods, ", ")),
          SetHeader("Access-Control-Allow-Headers",
                    joinStrings(config.AllowedHeaders, ", ")),
          SetHeader("Access-Control-Allow-Credentials",
                    IF config.AllowCredentials THEN "true" ELSE "false") >>
    \o (IF config.MaxAge > 0
        THEN << SetHeader("Access-Control-Max-Age", intToString(config.MaxAge)) >>
        ELSE << >>)
CORSMiddleware(config, next, c, r) ==
    IF r.method = "OPTIONS"
    THEN [NotRun(c) EXCEPT !.ops = CORSConfigHeaders(config, r) \o <<WriteHeader(200)>>]
    ELSE [next EXCEPT !.ops = CORSConfigHeaders(config, r) \o @]

WithRequestID(next, requestID) ==
    [next EXCEPT !.ops = <<SetHeader("X-Request-ID", requestID)>> \o @,
                 !.log = <<LogLine("Request ID", requestID, 0, 0)>> \o @]
\* a middleware that ignores the inbound X-Request-ID
RequestIDMiddlewareFresh(next, r, t) == WithRequestID(next, generateRequestID(t))
RequestIDMiddleware(next, r, t) ==
    WithRequestID(next, IF r.reqID = "" THEN generateRequestID(t) ELSE r.reqID)

\* chain[1](chain[2](... final)) for the layers named in chain; next is the
\* run of the layers below, entered only if the layer above does not answer
\* The run also keeps the order of execution (trace): a layer is entered,
\* runs what it does before next.ServeHTTP, and what it does after it unless
\* a panic passes through it; middleware1 and middleware2 only record that.
Traced(m, run) ==
    [run EXCEPT !.trace = << m \o "-before" >> \o @
                            \o (IF run.panics THEN << >> ELSE << m \o "-after" >>)]
Layer(m, next, c, r, t) ==
    CASE m = "Recovery" -> Traced(m, RecoveryMiddleware(next, r))
      [] m \in {"middleware1", "middleware2"} -> Traced(m, next)
      [] m = "Logging" -> Traced(m, LoggingMiddleware(next, r))
      [] m = "SimpleCORS" -> Traced(m, SimpleCORSMiddleware(next, c, r))
      [] m = "CORS" -> Traced(m, CORSMiddleware(DefaultCORSConfig, next, c, r))
      [] m = "ListedCORS" -> Traced(m, CORSMiddleware(ListedCORSConfig, next, c, r))
      [] m = "RequestID" -> Traced(m, RequestIDMiddleware(next, r, t))
RECURSIVE ChainMiddleware(_, _, _, _, _)
RECURSIVE ChainMiddlewareInnerFirst(_, _, _, _, _)
\* a chain that wraps the first middleware of the list around the handler
\* first, so that the last one of the list ends up outermost
ChainMiddlewareInnerFirst(chain, final, c, r, t) ==
    IF chain = <<>> THEN final
    ELSE Layer(chain[Len(chain)],
               ChainMiddlewareInnerFirst(SubSeq(chain, 1, Len(chain) - 1), final, c, r, t),
               c, r, t)
ChainMiddleware(chain, final, c, r, t) ==
    IF chain = <<>> THEN final
    ELSE Layer(Head(chain), ChainMiddleware(Tail(chain), final, c, r, t), c, r, t)

\* ChainMiddleware(RecoveryMiddleware, LoggingMiddleware, SimpleCORSMiddleware,
\*                 RequestIDMiddleware) of SetupRoutes
SetupRoutes == << "Recovery", "Logging", "SimpleCORS", "RequestID" >>

RECURSIVE Respond(_, _)
Respond(w, ops) == IF ops = <<>> THEN w ELSE Respond(WriterApply(w, Head(ops)), Tail(ops))

\* -------------------------------------------------------------------- state
VARIABLES
    todos,          \* the todos table: id -> row
    autoIncrement,  \* the next AUTO_INCREMENT value of todos.id
    now,            \* the clock read by NOW() and time.Now()
    mode,           \* what the driver's RowsAffected() counts: "matched" or "changed"
    last,           \* the last request served by the application and its outcome
    mw,             \* a request in flight through middleware around a scripted handler
    inflight        \* the requests served concurrently, each between two SQL statements

vars == << todos, autoIncrement, now, mode, last, mw, inflight >>

\* ------------------------------------------------------------------ inputs
NoBody == [ok |-> TRUE, title |-> <<>>, description |-> <<>>, is_completed |-> <<>>]
BadBody == [NoBody EXCEPT !.ok = FALSE]
Body(title, description, is_completed) ==
    [ok |-> TRUE, title |-> title, description |-> description,
     is_completed |-> is_completed]

Request(method, path, ctype, body, reqID) ==
    [body |-> body, ctype |-> ctype, path |-> path, method |-> method,
     query |-> [page |-> "", limit |-> ""], origin |-> "", reqID |-> reqID]
WithOrigin(r, origin) == [r EXCEPT !.origin = origin]
WithQuery(r, page, limit) == [r EXCEPT !.query = [page |-> page, limit |-> limit]]

Collection == <<"api", "v1", "todos">>
Item(seg) == Collection \o <<seg>>
Action(seg, action) == Collection \o <<seg, action>>

\* identifiers of the rows the table can hold, and the first one it cannot
Ids == {ToString(n) : n \in 1..(MaxTodos + 1)}

Orders == UNION {[1..n -> 1..MaxTodos] : n \in 0..MaxTodos}

\* ------------------------------------------------------------------ actions
NoRequest == Request("", <<>>, "", NoBody, "")
NoLast == [t |-> 0, err |-> NoErr, failAt |-> 0, stmts |-> 0, calls |-> <<>>, svc |-> <<>>, handler |-> "",
           ran |-> 0, log |-> <<>>, req |-> NoRequest, pre |-> <<>>, post |-> <<>>,
           resp |-> NewWriter, panicked |-> FALSE]
NoMw == [panics |-> FALSE, ran |-> 0, log |-> <<>>, trace |-> <<>>, chain |-> <<>>, req |-> NoRequest,
         resp |-> NewWriter, script |-> <<>>, stage |-> "idle", propagated |-> FALSE]
\* the goroutines that serve requests at the same time, and one that serves none
Procs == {"a", "b"}
Idle == [todo |-> NoTodo, req |-> NoRequest, resp |-> NewWriter, pc |-> "idle",
         existed |-> FALSE, missed |-> FALSE]

Init ==
    /\ todos = <<>>
    /\ autoIncrement = 1
    /\ now = 0
    /\ mode \in {"matched", "changed"}
    /\ last = NoLast
    /\ mw = NoMw
    /\ inflight = [p \in Procs |-> Idle]

\* finalHandler.ServeHTTP(w, r): the chain of SetupRoutes around the mux
Returned(routed) ==
    [c |-> routed.c, ops |-> routed.ops, handler |-> routed.handler,
     panics |-> FALSE, ran |-> 1, log |-> <<>>, trace |-> << "final-handler" >>]
Served(r, failAt, run) ==
    /\ todos' = run.c.rows
    /\ autoIncrement' = run.c.ai
    /\ last' = [t |-> now, err |-> NoErr, failAt |-> failAt, stmts |-> run.c.stmts, calls |-> run.c.calls,
                svc |-> run.c.svc, handler |-> run.handler, ran |-> run.ran,
                log |-> run.log, req |-> r, pre |-> todos, post |-> run.c.rows,
                resp |-> Respond(NewWriter, run.ops), panicked |-> run.panics]
Handle(c, r, t) == ChainMiddleware(SetupRoutes, Returned(Mux(c, r)), c, r, t)
ServeHTTP(r, failAt, order) ==
    Served(r, failAt, Handle(Ctx(todos, autoIncrement, now, mode, failAt, order), r, now))

\* a JSON request whose statements the store executes without failure
Serve(method, path, body) ==
    ServeHTTP(Request(method, path, "application/json", body, ""), 0, <<>>)

Tick ==
    /\ now < MaxClock
    /\ now' = now + 1
    /\ UNCHANGED << todos, autoIncrement, mode, last, mw, inflight >>

\* ---- the life of a task: create, read, update, complete, delete
Short == Body(<<Str(1)>>, <<>>, <<>>)
Long == Body(<<Str(MaxTitleLen)>>, <<Str(MaxDescriptionLen)>>, <<TRUE>>)
Rewrite == Body(<<Str(1)>>, <<Str(0)>>, <<>>)
Flag(b) == Body(<<>>, <<>>, <<b>>)

PostTodos ==
    /\ autoIncrement <= MaxTodos
    /\ \E body \in {Short, Long} : Serve("POST", Collection, body)
    /\ UNCHANGED << now, mode, mw, inflight >>

ListTodos ==
    /\ \E order \in Orders :
           /\ IsCreatedDesc(order, todos)
           /\ ServeHTTP(Request("GET", Collection, "", NoBody, ""), 0, order)
    /\ UNCHANGED << now, mode, mw, inflight >>

GetTodo ==
    /\ \E seg \in Ids : Serve("GET", Item(seg), NoBody)
    /\ UNCHANGED << now, mode, mw, inflight >>

PutTodo ==
    /\ \E seg \in Ids, body \in {Rewrite, Long, Flag(TRUE), Flag(FALSE), NoBody} :
           Serve("PUT", Item(seg), body)
    /\ UNCHANGED << now, mode, mw, inflight >>

DeleteTodo_ ==
    /\ \E seg \in Ids : Serve("DELETE", Item(seg), NoBody)
    /\ UNCHANGED << now, mode, mw, inflight >>

PatchTodo ==
    /\ \E seg \in Ids, action \in {"complete", "incomplete"} :
           Serve("PATCH", Action(seg, action), NoBody)
    /\ UNCHANGED << now, mode, mw, inflight >>

Next ==
    \/ PostTodos
    \/ ListTodos
    \/ GetTodo
    \/ PutTodo
    \/ DeleteTodo_
    \/ PatchTodo
    \/ Tick

Spec == Init /\ [][Next]_vars

\* ---- what the handlers and the service accept as title and description
Titles == {Str(0), Str(1), Str(MaxTitleLen), Str(MaxTitleLen + 1)}
            \cup {Padded(p, 0, 0) : p \in 1..MaxPad}
            \cup {Padded(p, MaxTitleLen, 0) : p \in 1..MaxPad}
Descriptions == {Str(MaxDescriptionLen), Str(MaxDescriptionLen + 1)}

PostInput ==
    /\ autoIncrement <= MaxTodos
    /\ \E body \in {Body(<<t>>, <<Str(MaxDescriptionLen)>>, <<>>) : t \in Titles}
                     \cup {Body(<<Str(1)>>, <<d>>, <<>>) : d \in Descriptions} :
           Serve("POST", Collection, body)
    /\ UNCHANGED << now, mode, mw, inflight >>

PutInput ==
    /\ \E seg \in Ids,
          body \in {Body(<<t>>, <<>>, <<>>) : t \in Titles}
                     \cup {Body(<<>>, <<d>>, <<>>) : d \in Descriptions} :
           Serve("PUT", Item(seg), body)
    /\ UNCHANGED << now, mode, mw, inflight >>

InputNext ==
    \/ PostInput
    \/ PutInput

InputSpec == Init /\ [][InputNext]_vars

\* ---- every method on the paths the router tells apart
Methods == {"GET", "POST", "PUT", "DELETE", "PATCH"}
IdSegments == {ToString(n) : n \in (0 - 1)..(MaxTodos + 1)} \cup {"abc"}
RoutePaths ==
    {Collection} \cup {Item(seg) : seg \in IdSegments}
      \cup {Action("1", a) : a \in {"complete", "incomplete", "bogus"}}
      \cup {Action("abc", "complete")}
      \cup { <<"health">>, <<"metrics">>, <<"api", "v1">>, <<"api", "v1", "users">>,
             Action("1", "complete") \o <<"now">> }

Seed ==
    /\ autoIncrement <= MaxTodos
    /\ Serve("POST", Collection, Short)
    /\ UNCHANGED << now, mode, mw, inflight >>

Route ==
    /\ \E method \in Methods, path \in RoutePaths : Serve(method, path, NoBody)
    /\ UNCHANGED << now, mode, mw, inflight >>

Preflight ==
    /\ \E path \in {Collection, Item("1"), <<"metrics">>}, reqID \in {"", "abc-123"} :
           ServeHTTP(Request("OPTIONS", path, "", NoBody, reqID), 0, <<>>)
    /\ UNCHANGED << now, mode, mw, inflight >>

RouteNext ==
    \/ Seed
    \/ Route
    \/ Preflight

RouteSpec == Init /\ [][RouteNext]_vars

\* ---- tasks created and deleted one after the other, and the list read
ListIds == {ToString(n) : n \in 1..MaxListed}
ListOrders == UNION {[1..n -> 1..MaxListed] : n \in 0..MaxListed}

ListCreate ==
    /\ autoIncrement <= MaxListed
    /\ Serve("POST", Collection, Short)
    /\ UNCHANGED << now, mode, mw, inflight >>

ListDelete ==
    /\ \E seg \in ListIds : Serve("DELETE", Item(seg), NoBody)
    /\ UNCHANGED << now, mode, mw, inflight >>

ListAll ==
    /\ \E order \in ListOrders :
           /\ IsCreatedDesc(order, todos)
           /\ ServeHTTP(Request("GET", Collection, "", NoBody, ""), 0, order)
    /\ UNCHANGED << now, mode, mw, inflight >>

\* ?page= and ?limit= of GET /api/v1/todos: absent, not a number, out of
\* range, and the ends of the range
Pages == {"", "abc", "0", "-1", "1", "2"}
Limits == {"", "abc", "0", "-1", "1", ToString(MaxLimit), ToString(MaxLimit + 1)}

ListPage ==
    /\ \E order \in ListOrders, page \in Pages, limit \in Limits :
           /\ IsCreatedDesc(order, todos)
           /\ page = "" \/ limit = ""
           /\ ServeHTTP(WithQuery(Request("GET", Collection, "", NoBody, ""), page, limit),
                        0, order)
    /\ UNCHANGED << now, mode, mw, inflight >>

ListNext ==
    \/ ListCreate
    \/ ListDelete
    \/ ListAll
    \/ ListPage
    \/ Tick

ListSpec == Init /\ [][ListNext]_vars

\* ---- tasks created, deleted, and asked for again by their id
Revisit ==
    /\ \E seg \in ListIds :
           \/ Serve("GET", Item(seg), NoBody)
           \/ Serve("PUT", Item(seg), Rewrite)
           \/ \E action \in {"complete", "incomplete"} :
                  Serve("PATCH", Action(seg, action), NoBody)
    /\ UNCHANGED << now, mode, mw, inflight >>

DeleteNext ==
    \/ ListCreate
    \/ ListDelete
    \/ ListAll
    \/ Revisit

DeleteSpec == Init /\ [][DeleteNext]_vars

\* ---- requests during which the driver fails one SQL statement
FailingRequests ==
    { Request("POST", Collection, "application/json", Short, ""),
      Request("GET", Collection, "", NoBody, ""),
      Request("GET", Item("1"), "", NoBody, ""),
      Request("PUT", Item("1"), "application/json", Rewrite, ""),
      Request("DELETE", Item("1"), "", NoBody, ""),
      Request("PATCH", Action("1", "complete"), "", NoBody, ""),
      Request("PATCH", Action("1", "incomplete"), "", NoBody, "") }

DriverFailure ==
    /\ \E r \in FailingRequests, failAt \in 1..MaxStmts, order \in Orders :
           /\ r.method = "POST" => autoIncrement <= MaxTodos
           /\ IsCreatedDesc(order, todos)
           /\ ServeHTTP(r, failAt, order)
    /\ UNCHANGED << now, mode, mw, inflight >>

FailNext ==
    \/ Seed
    \/ DriverFailure
    \/ Tick

FailSpec == Init /\ [][FailNext]_vars

\* ---- the service methods called directly, as its tests call them: last.err
\* is the error the method returned
ServiceIds == (0 - 1)..(MaxTodos + 1)
ServiceMethods == {"GetTodoByID", "UpdateTodo", "DeleteTodo"}
Invoke(op, c, id, title) ==
    CASE op = "GetTodoByID" -> GetTodoByID(c, id)
      [] op = "UpdateTodo" -> UpdateTodo(c, [NoTodo EXCEPT !.ID = id, !.Title = title])
      [] op = "DeleteTodo" -> DeleteTodo(c, id)
ServiceReturned(failAt, s) ==
    /\ todos' = s.c.rows
    /\ autoIncrement' = s.c.ai
    /\ last' = [NoLast EXCEPT !.t = now, !.failAt = failAt, !.stmts = s.c.stmts,
                              !.calls = s.c.calls, !.svc = s.c.svc,
                              !.pre = todos, !.post = s.c.rows, !.err = s.err]
ServiceCall ==
    /\ \E op \in ServiceMethods, id \in ServiceIds, title \in {Str(0), Str(1)},
          failAt \in 0..MaxStmts :
           ServiceReturned(failAt,
               Invoke(op, Ctx(todos, autoIncrement, now, mode, failAt, <<>>), id, title))
    /\ UNCHANGED << now, mode, mw, inflight >>

ServiceNext ==
    \/ Seed
    \/ ServiceCall
    \/ Tick

ServiceSpec == Init /\ [][ServiceNext]_vars

\* ---- two requests on the task with id 1 served at the same time: a step is
\* one SQL statement of one of them and what its goroutine does up to the next
\* statement.  existed: the task was stored when the request arrived; missed:
\* the task was not stored when the request's UPDATE or DELETE executed.
Retitle == Body(<<Str(2)>>, <<Str(1)>>, <<>>)
RaceRequests ==
    { Request("PUT", Item("1"), "application/json", Retitle, ""),
      Request("DELETE", Item("1"), "", NoBody, ""),
      Request("PATCH", Action("1", "complete"), "", NoBody, ""),
      Request("PATCH", Action("1", "incomplete"), "", NoBody, "") }
Kind(r) == IF r.method = "PATCH" THEN r.path[5] ELSE r.method
RaceCtx == Ctx(todos, autoIncrement, now, mode, 0, <<>>)
\* the handler's answer to what the service returned
Response(kind, s) ==
    CASE kind = "PUT" -> UpdateTodoResponse(s)
      [] kind = "DELETE" -> DeleteTodoResponse(s)
      [] kind = "complete" -> CompleteTodoResponse(s)
      [] kind = "incomplete" -> IncompleteTodoResponse(s)
\* the service's wrapping of an error of the repository's write
Prefix(kind) ==
    CASE kind = "PUT" -> "failed to update todo"
      [] kind = "DELETE" -> "failed to delete todo"
      [] kind = "complete" -> "failed to complete todo"
      [] kind = "incomplete" -> "failed to mark todo as incomplete"
Answered(p, h) ==
    inflight' = [inflight EXCEPT ![p].pc = "done", ![p].resp = Respond(NewWriter, h.ops)]

\* a request arrives: PUT first reads the task in the handler
RaceBegin ==
    /\ \E p \in Procs, r \in RaceRequests :
           /\ inflight[p].pc \in {"idle", "done"}
           /\ inflight' = [inflight EXCEPT ![p] =
                  [Idle EXCEPT !.req = r,
                               !.pc = IF r.method = "PUT" THEN "fetch" ELSE "check",
                               !.existed = PathID(r).val \in DOMAIN todos]]
    /\ UNCHANGED << todos, autoIncrement, now, mode, last, mw >>

\* UpdateTodo (handler): todoService.GetTodoByID, then ApplyToEntity
Fetched(p, g) ==
    IF g.err # NoErr THEN Answered(p, NotFoundOr500(g, "Failed to get todo"))
    ELSE inflight' = [inflight EXCEPT ![p].pc = "check",
                                      ![p].todo = ApplyToEntity(inflight[p].req.body, g.todo)]
RaceFetch ==
    /\ \E p \in Procs :
           /\ inflight[p].pc = "fetch"
           /\ Fetched(p, GetTodoByID(RaceCtx, PathID(inflight[p].req).val))
    /\ UNCHANGED << todos, autoIncrement, now, mode, last, mw >>

\* the service method up to its existence check: todoRepo.GetByID
Checked(p, kind, g) ==
    IF g.err # NoErr THEN Answered(p, Response(kind, NotFound(g)))
    ELSE inflight' = [inflight EXCEPT
             ![p].pc = "write",
             ![p].todo = CASE kind = "complete" -> MarkAsCompleted(g.todo)
                           [] kind = "incomplete" -> MarkAsIncomplete(g.todo)
                           [] OTHER -> @]
RaceCheck ==
    /\ \E p \in Procs :
           /\ inflight[p].pc = "check"
           /\ IF Kind(inflight[p].req) = "PUT" /\ ~IsValid(inflight[p].todo)
              THEN Answered(p, UpdateTodoResponse(Fail(RaceCtx, ValidationFailed)))
              ELSE Checked(p, Kind(inflight[p].req),
                           RepoGetByID(RaceCtx, PathID(inflight[p].req).val))
    /\ UNCHANGED << todos, autoIncrement, now, mode, last, mw >>

\* the repository's write: the DELETE of Delete or the UPDATE of Update
Written(p, kind, id, u) ==
    /\ todos' = u.c.rows
    /\ IF u.err # NoErr \/ kind = "DELETE"
       THEN inflight' = [inflight EXCEPT
                ![p].pc = "done",
                ![p].resp = Respond(NewWriter, Response(kind, Wrap(u, Prefix(kind))).ops),
                ![p].missed = id \notin DOMAIN todos]
       ELSE inflight' = [inflight EXCEPT ![p].pc = "reread"]
RaceWrite ==
    /\ \E p \in Procs :
           /\ inflight[p].pc = "write"
           /\ IF Kind(inflight[p].req) = "DELETE"
              THEN Written(p, "DELETE", PathID(inflight[p].req).val,
                           RepoDelete(RaceCtx, PathID(inflight[p].req).val))
              ELSE Written(p, Kind(inflight[p].req), PathID(inflight[p].req).val,
                           UpdateExec(Called(RaceCtx, "Update"), inflight[p].todo))
    /\ UNCHANGED << autoIncrement, now, mode, last, mw >>

\* the GetByID at the end of Update, and the handler's answer
RaceReread ==
    /\ \E p \in Procs :
           /\ inflight[p].pc = "reread"
           /\ Answered(p, Response(Kind(inflight[p].req),
                                   Wrap(SelectByID(RaceCtx, PathID(inflight[p].req).val),
                                        Prefix(Kind(inflight[p].req)))))
    /\ UNCHANGED << todos, autoIncrement, now, mode, last, mw >>

RaceNext ==
    \/ Seed
    \/ RaceBegin
    \/ RaceFetch
    \/ RaceCheck
    \/ RaceWrite
    \/ RaceReread

RaceSpec == Init /\ [][RaceNext]_vars

\* ---- middleware around a handler that makes the writer calls of a script
\* and then returns or panics: mw.stage is "running" while the handler runs
Chains == { <<"Recovery">>, <<"Logging">>, <<"SimpleCORS">>, <<"RequestID">>, SetupRoutes,
            <<"CORS">>, <<"ListedCORS">>,
            <<"middleware1", "middleware2">>, <<"middleware2", "Logging", "middleware1">> }
Origins == {"", "https://app.example", "https://other.example"}
HandlerCalls == { SetHeader("Content-Type", "text/plain"), WriteHeader(201),
                  WriteHeader(404), Write(Text("OK")) }

Scripted(c, script, panics) ==
    [c |-> c, ops |-> script, handler |-> "scripted", panics |-> panics, ran |-> 1,
     log |-> <<>>, trace |-> << "final-handler" >>]
MwRun(script, panics) ==
    ChainMiddleware(mw.chain,
                    Scripted(Ctx(todos, autoIncrement, now, mode, 0, <<>>), script, panics),
                    Ctx(todos, autoIncrement, now, mode, 0, <<>>), mw.req, now)
MwDone(panics, run) ==
    mw' = [mw EXCEPT !.stage = "done", !.panics = panics, !.ran = run.ran,
                     !.log = run.log, !.trace = run.trace,
                     !.resp = Respond(NewWriter, run.ops), !.propagated = run.panics]

\* a request enters the chain: the layers run down to the handler, unless one
\* of them answers the request itself
MwEntered(chain, r, run) ==
    IF run.ran = 0
    THEN mw' = [NoMw EXCEPT !.chain = chain, !.req = r, !.stage = "done",
                            !.log = run.log, !.trace = run.trace,
                            !.resp = Respond(NewWriter, run.ops)]
    ELSE mw' = [NoMw EXCEPT !.chain = chain, !.req = r, !.stage = "running"]
MwBegin ==
    /\ mw.stage # "running"
    /\ \E chain \in Chains, method \in {"GET", "OPTIONS"}, reqID \in {"", "abc-123"},
          origin \in Origins :
           /\ method = "OPTIONS" => reqID = ""
           /\ origin # "" => chain \in {<<"CORS">>, <<"ListedCORS">>} /\ reqID = ""
           /\ MwEntered(chain, WithOrigin(Request(method, <<"test">>, "", NoBody, reqID), origin),
                        ChainMiddleware(chain,
                            Scripted(Ctx(todos, autoIncrement, now, mode, 0, <<>>),
                                     <<>>, FALSE),
                            Ctx(todos, autoIncrement, now, mode, 0, <<>>),
                            WithOrigin(Request(method, <<"test">>, "", NoBody, reqID),
                                       origin), now))
    /\ UNCHANGED << todos, autoIncrement, now, mode, last, inflight >>

HandlerCall ==
    /\ mw.stage = "running"
    /\ Len(mw.script) < MaxScript
    /\ \E o \in HandlerCalls : mw' = [mw EXCEPT !.script = Append(@, o)]
    /\ UNCHANGED << todos, autoIncrement, now, mode, last, inflight >>

HandlerReturn ==
    /\ mw.stage = "running"
    /\ MwDone(FALSE, MwRun(mw.script, FALSE))
    /\ UNCHANGED << todos, autoIncrement, now, mode, last, inflight >>

HandlerPanic ==
    /\ mw.stage = "running"
    /\ MwDone(TRUE, MwRun(mw.script, TRUE))
    /\ UNCHANGED << todos, autoIncrement, now, mode, last, inflight >>

MwNext ==
    \/ MwBegin
    \/ HandlerCall
    \/ HandlerReturn
    \/ HandlerPanic

MwSpec == Init /\ [][MwNext]_vars

\* ------------------------------------------------------------ observations
\* What the last request served was, and what its client and the store saw.
Status == last.resp.status
OnCollection == last.req.path = Collection
OnItem == Len(last.req.path) = 4 /\ SubSeq(last.req.path, 1, 3) = Collection
OnAction == Len(last.req.path) = 5 /\ SubSeq(last.req.path, 1, 3) = Collection
ItemID == PathID(last.req)
ReturnsTodo == Len(last.resp.body) = 1 /\ last.resp.body[1].kind = "todo"
ReturnedTodo == last.resp.body[1].todo
ReturnsError == Len(last.resp.body) = 1 /\ last.resp.body[1].kind = "error"
RepoCalled(name) == \E i \in 1..Len(last.calls) : last.calls[i] = name
SvcEntered(name) == \E i \in 1..Len(last.svc) : last.svc[i][1] = name
Existing == (OnItem \/ OnAction) /\ ItemID.ok /\ ItemID.val \in DOMAIN last.pre
Absent == (OnItem \/ OnAction) /\ ItemID.ok /\ ItemID.val > 0
              /\ ItemID.val \notin DOMAIN last.pre
WellFormed == ContainsJSON(last.req.ctype) /\ last.req.body.ok

\* ------------------------------------------------------------------ claims
\* C1 (as the specification states it): completing a task that is already
\* complete, or reopening one that is already incomplete, answers without
\* error, calls no repository Update and leaves the stored updatedAt as it was.
C1_IdempotentNoOp ==
    (/\ last.handler \in {"CompleteTodo", "IncompleteTodo"}
     /\ Existing
     /\ last.pre[ItemID.val].IsCompleted = (last.handler = "CompleteTodo"))
    => /\ Status = 200
       /\ ~RepoCalled("Update")
       /\ last.post[ItemID.val].UpdatedAt = last.pre[ItemID.val].UpdatedAt

\* C2: a task is incomplete right after its creation; a successful Complete
\* leaves the stored task complete and a successful Incomplete leaves it
\* incomplete, whatever it was before, and each returns the task in that state.
C2_CompletionFlag ==
    /\ \A id \in DOMAIN last.post \ DOMAIN last.pre : ~last.post[id].IsCompleted
    /\ (last.handler = "CreateTodo" /\ Status = 201)
         => ReturnsTodo /\ ~ReturnedTodo.IsCompleted
    /\ (last.handler = "CompleteTodo" /\ Status = 200)
         => /\ last.post[ItemID.val].IsCompleted
            /\ ReturnsTodo /\ ReturnedTodo.ID = ItemID.val /\ ReturnedTodo.IsCompleted
    /\ (last.handler = "IncompleteTodo" /\ Status = 200)
         => /\ ~last.post[ItemID.val].IsCompleted
            /\ ReturnsTodo /\ ReturnedTodo.ID = ItemID.val /\ ~ReturnedTodo.IsCompleted

\* a completed task has been reopened
C2_Reopened ==
    /\ last.handler = "IncompleteTodo" /\ Status = 200
    /\ last.pre[ItemID.val].IsCompleted
    /\ ~last.post[ItemID.val].IsCompleted

\* the title the service was given by the last create or update
ServiceTitle ==
    IF last.handler = "CreateTodo" THEN ToEntity(last.req.body).Title
    ELSE ApplyToEntity(last.req.body, last.pre[ItemID.val]).Title
TrimmedLen == StrLen(TrimSpace(ServiceTitle))

\* C3 (as the specification states it): the service's CreateTodo and
\* UpdateTodo reject a title whose trimmed length is 0 or more than 100 with
\* an error and without a repository Create or Update, and accept a title of
\* trimmed length 1 or 100.
C3_TrimmedTitleValidated ==
    (SvcEntered("CreateTodo") \/ SvcEntered("UpdateTodo"))
    => /\ (TrimmedLen = 0 \/ TrimmedLen > MaxTitleLen)
            => Status >= 400 /\ ~RepoCalled("Create") /\ ~RepoCalled("Update")
       /\ TrimmedLen \in {1, MaxTitleLen}
            => RepoCalled("Create") \/ RepoCalled("Update")

\* C4 (as the specification states it): a description longer than 500 is
\* rejected with a validation error by POST and by PUT of an existing task,
\* the stored tasks staying as they were; a description of exactly 500 is
\* never the reason of a rejection.
C4_LongDescriptionRejected ==
    (/\ last.handler \in {"CreateTodo", "UpdateTodo"}
     /\ last.handler = "UpdateTodo" => Existing
     /\ last.req.body.description # <<>>)
    => /\ StrLen(last.req.body.description[1]) > MaxDescriptionLen
            => Status = 400 /\ ReturnsError /\ last.post = last.pre
       /\ StrLen(last.req.body.description[1]) = MaxDescriptionLen
            => ~(ReturnsError /\ last.resp.body[1].details =
                                   <<"description must be 500 characters or less">>)

\* C5: a well-formed GET, PUT or DELETE of /api/v1/todos/{id} with an id > 0
\* that is not in the store is answered 404 "Todo not found", and the store
\* stays as it was.
C5_NotFoundSymmetry ==
    (/\ last.req.method \in {"GET", "PUT", "DELETE"}
     /\ OnItem /\ Absent /\ WellFormed)
    => /\ Status = 404
       /\ ReturnsError /\ last.resp.body[1].error = "Todo not found"
       /\ last.post = last.pre
       /\ ~RepoCalled("Update") /\ ~RepoCalled("Delete")

\* an update of a missing id while the store holds another task
C5_MissingUpdated ==
    /\ last.req.method = "PUT" /\ OnItem /\ Absent /\ WellFormed
    /\ last.pre # <<>>
    /\ Status = 404

\* GetTodoByID(returned id) right after the last request
ReadBack ==
    GetTodoByID(Ctx(todos, autoIncrement, now, mode, 0, <<>>), ReturnedTodo.ID)

\* C6: after a successful create, GetTodoByID(returned id) yields the title
\* and the description of the request, isCompleted = false whatever the
\* request said, and an id > 0 assigned by the store.
C6_CreateReadRoundTrip ==
    (last.handler = "CreateTodo" /\ Status = 201)
    => /\ ReturnsTodo
       /\ ReturnedTodo.ID > 0
       /\ ReturnedTodo.ID \notin DOMAIN last.pre
       /\ ReadBack.err = NoErr
       /\ ReadBack.todo.ID = ReturnedTodo.ID
       /\ ReadBack.todo.Title = Opt(last.req.body.title, Str(0))
       /\ ReadBack.todo.Description = Opt(last.req.body.description, Str(0))
       /\ ReadBack.todo.IsCompleted = FALSE

\* a create that asked for isCompleted = true and gave a description
C6_CreatedAsCompleted ==
    /\ last.handler = "CreateTodo" /\ Status = 201
    /\ last.req.body.is_completed = <<TRUE>>
    /\ StrLen(ReadBack.todo.Description) = MaxDescriptionLen

UnderTodos == Len(last.req.path) >= 3 /\ SubSeq(last.req.path, 1, 3) = Collection
NoHandlerRan == last.handler = "" /\ last.svc = <<>> /\ last.calls = <<>>
\* the handler invoked, and the identifier every service method was given
Invoked(name) == last.handler = name /\ \A i \in 1..Len(last.svc) : last.svc[i][1] # ""
WithThatID ==
    ItemID.ok => /\ last.svc # <<>>
                 /\ \A i \in 1..Len(last.svc) : last.svc[i][2] = ItemID.val

C8_BadIdentifierIs400 ==
    (/\ last.req.method \in {"GET", "PUT", "DELETE"}
     /\ OnItem
     /\ ~ItemID.ok \/ ItemID.val <= 0)
    => Status = 400 /\ last.calls = <<>>

\* C9 (as the specification states it): under RecoveryMiddleware a panic of
\* the inner handler, whatever it has written before, does not reach the
\* caller and the client sees status 500 with the body "Internal Server
\* Error"; the response of a handler that returns is passed through as it is.
C9_PanicBecomes500 ==
    (mw.stage = "done" /\ mw.chain = <<"Recovery">>)
    => /\ ~mw.propagated
       /\ mw.panics => /\ mw.resp.status = 500
                       /\ mw.resp.body = <<Text("Internal Server Error")>>
       /\ ~mw.panics => mw.resp = Respond(NewWriter, mw.script)

AccessLines == {i \in 1..Len(mw.log) : mw.log[i].line = "access"}

\* C10 (as the specification states it): when the handler panics under the
\* chain of SetupRoutes, the client sees status 500 and the access log has
\* its line for the request, with a status.  (The duration the line carries
\* is not modelled.)
C10_PanicStillLogged ==
    (mw.stage = "done" /\ mw.chain = SetupRoutes /\ mw.panics)
    => /\ mw.resp.status = 500
       /\ \E i \in AccessLines : mw.log[i].status = 500

\* the ids of the "Request ID" lines the last request left in the log
LoggedIDs == {last.log[i].id : i \in {j \in 1..Len(last.log) : last.log[j].line = "Request ID"}}

\* C11 (as the specification states it): every response of the chain of
\* SetupRoutes, the answer to an OPTIONS preflight included, carries an
\* X-Request-ID header, and its value is the id logged for the request.
C11_RequestIDOnEveryResponse ==
    (last.req.method # "")
    => /\ last.resp.sent["X-Request-ID"] # ""
       /\ LoggedIDs = {last.resp.sent["X-Request-ID"]}

\* the response headers the caller of the chain receives
MwHeaders == IF mw.resp.wroteHeader THEN mw.resp.sent ELSE mw.resp.header
GeneratedIDs == {generateRequestID(t) : t \in 0..MaxClock}

\* C12: RequestIDMiddleware alone around a handler.  The response header
\* X-Request-ID is the inbound id when the request carries one and a
\* generated "req_..." id otherwise; it is among the headers sent even when
\* the handler itself writes the header, and the handler runs exactly once.
C12_RequestIDEchoed ==
    (mw.stage = "done" /\ mw.chain = <<"RequestID">>)
    => /\ mw.ran = 1
       /\ mw.req.reqID # "" => MwHeaders["X-Request-ID"] = mw.req.reqID
       /\ mw.req.reqID = "" => MwHeaders["X-Request-ID"] \in GeneratedIDs

\* a request with an inbound id whose handler wrote the header itself
C12_InboundIDKept ==
    /\ mw.stage = "done" /\ mw.chain = <<"RequestID">>
    /\ mw.req.reqID = "abc-123"
    /\ mw.resp.wroteHeader /\ mw.resp.status = 404
    /\ mw.resp.sent["X-Request-ID"] = "abc-123"

\* the chains with a CORS layer, and the configuration of the layer
CORSChains == { <<"SimpleCORS">>, <<"CORS">>, <<"ListedCORS">>, SetupRoutes }
OriginAllowed ==
    mw.chain = <<"ListedCORS">>
        => isOriginAllowed(mw.req.origin, ListedCORSConfig.AllowedOrigins)

\* C13: a CORS layer (SimpleCORSMiddleware, CORSMiddleware(config), or the
\* chain of SetupRoutes) answers every OPTIONS request itself: status 200, no
\* body, Access-Control-Allow-Methods and -Headers set, Access-Control-Allow-
\* Origin set when the configuration allows the origin, and the handler inside
\* it (the mux with its handlers, service and repository) is not entered.  For
\* every other method the handler inside is entered exactly once.
C13_PreflightShortCircuit ==
    (mw.stage = "done" /\ mw.chain \in CORSChains)
    => /\ mw.req.method = "OPTIONS"
            => /\ mw.ran = 0 /\ mw.script = <<>>
               /\ mw.resp.status = 200 /\ mw.resp.body = <<>>
               /\ mw.resp.sent["Access-Control-Allow-Methods"] # ""
               /\ mw.resp.sent["Access-Control-Allow-Headers"] # ""
               /\ OriginAllowed <=> mw.resp.sent["Access-Control-Allow-Origin"] # ""
       /\ mw.req.method # "OPTIONS" => mw.ran = 1

\* a preflight from a listed origin, answered by CORSMiddleware(config)
C13_ListedOriginPreflight ==
    /\ mw.stage = "done" /\ mw.chain = <<"ListedCORS">>
    /\ mw.req.method = "OPTIONS"
    /\ mw.resp.status = 200 /\ mw.ran = 0
    /\ mw.resp.sent["Access-Control-Allow-Origin"] = "https://app.example"

\* the entries of the list the last request returned
Listed == last.resp.body[1].todos
ReturnsList == Len(last.resp.body) = 1 /\ last.resp.body[1].kind = "list"

\* C14 (as the specification states it): a list holds exactly the tasks
\* stored, each once and as stored, the most recently created first; ids are
\* assigned in the order of creation, so a later entry has a smaller id.
C14_ListNewestFirst ==
    (last.handler = "GetAllTodos" /\ Status = 200)
    => /\ ReturnsList
       /\ Len(Listed) = Cardinality(DOMAIN last.pre)
       /\ \A id \in DOMAIN last.pre :
              \E i \in 1..Len(Listed) : Listed[i] = ToTodoResponse(last.pre[id])
       /\ \A i, j \in 1..Len(Listed) : i < j => Listed[i].ID > Listed[j].ID

\* the meta object of the list the last request returned
Meta == last.resp.body[1].meta[1]
NoNumber == {"", "abc", "0", "-1"}

\* C15 (as the specification states it): page and limit default to 1 and 10
\* when absent or invalid, a limit above 100 is cut down to 100, and
\* meta.limit is in 1..100.
C15_LimitCappedAt100 ==
    (last.handler = "GetAllTodos" /\ Status = 200)
    => /\ last.req.query.page \in NoNumber => Meta.page = DefaultPage
       /\ last.req.query.limit \in NoNumber => Meta.limit = DefaultLimit
       /\ last.req.query.limit = ToString(MaxLimit + 1) => Meta.limit = MaxLimit
       /\ Meta.limit \in 1..MaxLimit

\* C15 (amended): page and limit default to 1 and 10 when absent or invalid;
\* a limit above 100 is invalid too and gives the default 10, not 100; a
\* page > 0 and a limit in 1..100 are taken as given; meta.limit is in 1..100.
C15_LimitAbove100IsDefault ==
    (last.handler = "GetAllTodos" /\ Status = 200)
    => /\ last.req.query.page \in NoNumber => Meta.page = DefaultPage
       /\ last.req.query.limit \in NoNumber => Meta.limit = DefaultLimit
       /\ last.req.query.limit = ToString(MaxLimit + 1) => Meta.limit = DefaultLimit
       /\ last.req.query.page = "2" => Meta.page = 2
       /\ last.req.query.limit = "1" => Meta.limit = 1
       /\ last.req.query.limit = ToString(MaxLimit) => Meta.limit = MaxLimit
       /\ Meta.limit \in 1..MaxLimit

\* a list asked with a limit of 101
C15_LimitOf101 ==
    /\ last.handler = "GetAllTodos" /\ Status = 200
    /\ last.req.query.limit = ToString(MaxLimit + 1)
    /\ Meta.limit = DefaultLimit
    /\ last.pre # <<>>

\* the stored task a request on an item or action path names, before and after
Before == last.pre[ItemID.val]
After == last.post[ItemID.val]

\* C16: a PUT of an existing task never changes its id or createdAt, nor any
\* other task; answered 200, it leaves each of title, description and
\* isCompleted at the value the request gives, or at the stored value when the
\* request omits the field; answered otherwise, it leaves the task as it was.
C16_PartialUpdate ==
    (last.handler = "UpdateTodo" /\ Existing)
    => /\ DOMAIN last.post = DOMAIN last.pre
       /\ \A id \in DOMAIN last.pre \ {ItemID.val} : last.post[id] = last.pre[id]
       /\ After.ID = Before.ID /\ After.CreatedAt = Before.CreatedAt
       /\ Status = 200
            => /\ After.Title = Opt(last.req.body.title, Before.Title)
               /\ After.Description = Opt(last.req.body.description, Before.Description)
               /\ After.IsCompleted = Opt(last.req.body.is_completed, Before.IsCompleted)
       /\ Status # 200 => After = Before

\* a completed task with a description is given a new title only
C16_TitleOnly ==
    /\ last.handler = "UpdateTodo" /\ Existing /\ Status = 200
    /\ last.req.body.title # <<>> /\ last.req.body.is_completed = <<>>
    /\ Before.IsCompleted /\ After.IsCompleted
    /\ After.Title # Before.Title

\* the task the last create or update handed to the service
Resulting ==
    IF last.handler = "CreateTodo" THEN ToEntity(last.req.body)
    ELSE ApplyToEntity(last.req.body, Before)

\* C17 (as the specification states it): a POST, or a PUT of an existing
\* task, whose resulting task fails the entity invariant (title of length
\* 1..100) is answered 400 and the stored tasks stay as they were.
C17_ValidationIs400 ==
    (/\ last.handler \in {"CreateTodo", "UpdateTodo"}
     /\ WellFormed
     /\ last.handler = "UpdateTodo" => Existing
     /\ ~IsValid(Resulting))
    => Status = 400 /\ last.post = last.pre

\* the driver failed a statement of the last request
StoreFailed == last.failAt # 0 /\ last.stmts >= last.failAt

\* C18 (as the specification states it): a request during which a repository
\* call fails with a driver error, the read that checks existence inside
\* update, delete, complete and incomplete included, is answered 500.
C18_StoreFailureIs500 ==
    StoreFailed => Status = 500

\* the last request matched a route on its path, with a method the route
\* does not support
Unsupported ==
    \/ OnCollection /\ last.req.method \notin {"GET", "POST"}
    \/ OnItem /\ last.req.method \notin {"GET", "PUT", "DELETE"}
    \/ OnAction /\ last.req.path[5] \in {"complete", "incomplete"}
                /\ last.req.method # "PATCH"
    \/ last.req.path = <<"health">> /\ last.req.method # "GET"

\* C19 (as the specification states it): a request with a method its route
\* does not support (the collection, an item, an action, /health) is answered
\* 405 with an Allow header.
C19_AllowOn405 ==
    (last.req.method \in Methods /\ Unsupported)
    => Status = 405 /\ last.resp.sent["Allow"] # ""

\* the ids the store has assigned to tasks that are deleted by now
Gone == (1..(autoIncrement - 1)) \ DOMAIN todos

\* what the last request shows of a hard delete
DeleteObserved ==
    /\ (last.handler = "DeleteTodo" /\ Existing)
         => /\ Status = 204
            /\ DOMAIN last.post = DOMAIN last.pre \ {ItemID.val}
            /\ \A id \in DOMAIN last.post : last.post[id] = last.pre[id]
    /\ (last.handler \in {"GetTodoByID", "UpdateTodo", "DeleteTodo",
                          "CompleteTodo", "IncompleteTodo"} /\ Absent)
         => Status = 404 /\ last.post = last.pre
    /\ (last.handler = "GetAllTodos" /\ Status = 200)
         => \A i \in 1..Len(Listed) : Listed[i].ID \in DOMAIN last.pre
    /\ (last.handler = "CreateTodo" /\ Status = 201)
         => ReturnedTodo.ID \notin DOMAIN last.pre /\ ReturnedTodo.ID \notin Gone
\* a deleted id stays deleted, and a new task never gets the id of another one
StaysGone ==
    /\ Gone \subseteq Gone'
    /\ \A id \in DOMAIN todos' \ DOMAIN todos : id \notin Gone /\ id >= autoIncrement

\* C20: DELETE of an existing id answers 204 and removes that task only;
\* DELETE of an absent id answers 404; from then on GET, PUT, DELETE and
\* PATCH complete/incomplete of the id answer 404 and change nothing, the id
\* is in no list, and no task created later gets it.
C20_HardDelete == [](DeleteObserved) /\ [][StaysGone]_vars

\* a deleted task is asked for after a newer task was created
C20_GoneRevisited ==
    /\ last.handler \in {"GetTodoByID", "UpdateTodo", "CompleteTodo"}
    /\ ItemID.val \in Gone
    /\ \E id \in DOMAIN last.pre : id > ItemID.val
    /\ Status = 404

\* the order ChainMiddleware(m1, ..., mn)(h) is to run in: the parts before
\* the handler from m1 to mn, the handler, the parts after it from mn to m1
ChainOrder(chain) ==
    [i \in 1..(2 * Len(chain) + 1) |->
        IF i <= Len(chain) THEN chain[i] \o "-before"
        ELSE IF i = Len(chain) + 1 THEN "final-handler"
        ELSE chain[2 * Len(chain) + 2 - i] \o "-after"]

\* C21: when every middleware of the list hands the request on and the
\* handler returns, the chain runs the part before the handler of the first
\* middleware of the list first, then of the second, ..., then the handler,
\* then the parts after the handler in the reverse order, each exactly once.
C21_ChainOrder ==
    (mw.stage = "done" /\ mw.ran = 1 /\ ~mw.panics)
    => mw.trace = ChainOrder(mw.chain)

\* three layers around a handler that wrote a response
C21_ThreeLayers ==
    /\ mw.stage = "done" /\ mw.chain = << "middleware2", "Logging", "middleware1" >>
    /\ mw.trace = << "middleware2-before", "Logging-before", "middleware1-before",
                     "final-handler",
                     "middleware1-after", "Logging-after", "middleware2-after" >>
    /\ mw.resp.status = 201

\* the position of an event in the order of execution (0 when it is absent)
Position(event) ==
    IF \E i \in 1..Len(mw.trace) : mw.trace[i] = event
    THEN CHOOSE i \in 1..Len(mw.trace) : mw.trace[i] = event
    ELSE 0

\* C22 (as the specification states it): in the chain of SetupRoutes the
\* Recovery layer is outermost, and the request-id layer is entered before
\* the logging layer, so that the access line carries the id of the request.
C22_RequestIDBeforeLogging ==
    (mw.stage = "done" /\ mw.chain = SetupRoutes /\ mw.ran = 1 /\ ~mw.panics)
    => /\ Position("Recovery-before") = 1
       /\ Position("RequestID-before") < Position("Logging-before")
       /\ \A i \in AccessLines : mw.log[i].id = MwHeaders["X-Request-ID"]

\* the status the handler's calls put on the wire: that of the first
\* WriteHeader, or 200 when a Write comes first or nothing is written
RECURSIVE FirstStatus(_)
FirstStatus(ops) ==
    IF ops = <<>> THEN 200
    ELSE IF Head(ops).op = "WriteHeader" THEN Head(ops).code
    ELSE IF Head(ops).op = "Write" THEN 200
    ELSE FirstStatus(Tail(ops))

\* C23 (as the specification states it): under the logging layer a handler
\* that returns leaves exactly one access line; its status is the first
\* status the handler wrote (200 when it wrote a body first), whatever
\* WriteHeader calls follow, and its size is the sum of the Write calls.
C23_AccessLineFirstStatus ==
    (mw.stage = "done" /\ mw.chain = << "Logging" >> /\ ~mw.panics)
    => /\ Cardinality(AccessLines) = 1 /\ Len(mw.log) = 1
       /\ \A i \in AccessLines :
              /\ mw.log[i].status = FirstStatus(mw.script)
              /\ mw.log[i].size = SumSizes(mw.script)

\* the service method last called directly, and the id it was called with
DirectCall(op) == last.handler = "" /\ last.svc # <<>> /\ last.svc[1][1] = op
CalledWith == last.svc[1][2]

\* C24: GetTodoByID, UpdateTodo and DeleteTodo called with an id <= 0 return
\* the invalid-id error and call no repository method; UpdateTodo and
\* DeleteTodo call the repository's Update or Delete only after its GetByID
\* for the same id succeeded in the same operation.
C24_ServiceIdGuard ==
    /\ \A op \in ServiceMethods :
          (DirectCall(op) /\ CalledWith <= 0)
          => last.err = InvalidID /\ last.calls = <<>> /\ last.post = last.pre
    /\ \A op \in {"UpdateTodo", "DeleteTodo"} :
          (DirectCall(op) /\ (RepoCalled("Update") \/ RepoCalled("Delete")))
          => /\ last.calls[1] = "GetByID" /\ Len(last.calls) = 2
             /\ CalledWith \in DOMAIN last.pre
             /\ last.failAt # 1

\* UpdateTodo with id 0 while a task is stored
C24_ZeroIdRejected ==
    /\ DirectCall("UpdateTodo") /\ CalledWith = 0
    /\ last.pre # <<>>
    /\ last.err = InvalidID /\ last.calls = <<>>

\* the texts in the details field of the response body
Details ==
    UNION { {last.resp.body[i].details[j] : j \in 1..Len(last.resp.body[i].details)}
            : i \in 1..Len(last.resp.body) }

\* C25 (as the specification states it): the body of a 500 answered because
\* the store failed is the same whatever the text of the store's error is;
\* its details field carries no text of the driver or of the repository.
C25_NoDriverTextOn500 ==
    (StoreFailed /\ Status = 500)
    => Details \cap {"driver: bad connection", "failed to insert todo",
                     "failed to scan todo", "failed to query todos"} = {}

\* a step that serves a request without an inbound X-Request-ID after
\* another such request
NextGenerated ==
    /\ last.req.method # "" /\ last.req.reqID = ""
    /\ last'.req.method # "" /\ last'.req.reqID = ""
    /\ last' # last

\* C26 (as the specification states it): no two requests without an inbound
\* X-Request-ID are assigned the same generated id, requests served within
\* the same clock tick included.
C26_GeneratedIDsUnique ==
    [][NextGenerated => last'.resp.sent["X-Request-ID"] # last.resp.sent["X-Request-ID"]]_vars

\* how many of total entries lie at the positions (p-1)*l .. p*l-1
SliceLen(total, p, l) ==
    IF total <= (p - 1) * l THEN 0
    ELSE IF total >= p * l THEN l
    ELSE total - (p - 1) * l

\* C27 (as the specification states it): the list of GET /api/v1/todos
\* holds the entries of page meta.page of the stored tasks, meta.limit
\* entries at most, each a stored task and none twice, while meta.total is
\* the number of stored tasks and meta.total_pages is total / limit rounded up.
C27_ListSliced ==
    (last.handler = "GetAllTodos" /\ Status = 200)
    => /\ ReturnsList
       /\ Len(Listed) <= Meta.limit
       /\ Len(Listed) = SliceLen(Cardinality(DOMAIN last.pre), Meta.page, Meta.limit)
       /\ \A i \in 1..Len(Listed) :
              /\ Listed[i].ID \in DOMAIN last.pre
              /\ Listed[i] = ToTodoResponse(last.pre[Listed[i].ID])
              /\ \A j \in 1..Len(Listed) : i # j => Listed[i].ID # Listed[j].ID
       /\ Meta.total = Cardinality(DOMAIN last.pre)
       /\ Meta.total_pages * Meta.limit >= Meta.total
       /\ (Meta.total_pages - 1) * Meta.limit < Meta.total

\* what a concurrent request was and how it was answered
Finished(p, kinds) == inflight[p].pc = "done" /\ Kind(inflight[p].req) \in kinds
Answer(p) == inflight[p].resp.status
\* the id of the task the request names
Target(p) == PathID(inflight[p].req).val

\* C28 (as the specification states it): a PUT, DELETE or PATCH
\* complete/incomplete whose task a concurrent request deleted after its
\* existence check succeeded and before its write executed is answered 404,
\* and the task stays deleted.
C28_WriteAfterDeleteIs404 ==
    \A p \in Procs :
        (Finished(p, {"PUT", "DELETE", "complete", "incomplete"}) /\ inflight[p].missed)
        => Answer(p) = 404 /\ Target(p) \notin DOMAIN todos

\* C29 (as the specification states it): when a PATCH complete or incomplete
\* and a PUT on the same task, served at the same time, have both been
\* answered 200, the stored title and description are those of the PUT.
C29_PatchKeepsPutFields ==
    \A p, q \in Procs :
        (Finished(p, {"PUT"}) /\ Answer(p) = 200
         /\ Finished(q, {"complete", "incomplete"}) /\ Answer(q) = 200)
        => /\ Target(p) \in DOMAIN todos
           /\ todos[Target(p)].Title = inflight[p].req.body.title[1]
           /\ todos[Target(p)].Description = inflight[p].req.body.description[1]

\* C30: of two DELETE requests that both arrived while the task was stored,
\* once both are answered, exactly one is answered 204 and the other 404,
\* and the task is not stored.
C30_OneDeleteSucceeds ==
    \A p, q \in Procs :
        (p # q /\ Finished(p, {"DELETE"}) /\ Finished(q, {"DELETE"})
         /\ inflight[p].existed /\ inflight[q].existed)
        => /\ {Answer(p), Answer(q)} = {204, 404}
           /\ Target(p) \notin DOMAIN todos

\* the second DELETE passed its existence check before the first one deleted
C30_BothPassedTheCheck ==
    /\ Finished("a", {"DELETE"}) /\ Finished("b", {"DELETE"})
    /\ inflight["a"].existed /\ inflight["b"].existed
    /\ Answer("a") = 204
    /\ Answer("b") = 404 /\ inflight["b"].missed

====
